---- MODULE Spec2Model ----
(***************************************************************************)
(* Model of the field-element challenger adapters of                        *)
(* challenger/src/serializing_challenger.rs (SerializingChallenger32 and    *)
(* SerializingChallenger64) over an opaque byte transcript.                 *)
(*                                                                          *)
(* Machine words (u32, u64, u128, usize) are modelled at their real widths. *)
(* A word is the set of the positions of its 1 bits: 13 = {0, 2, 3}.  With  *)
(* that representation `&` is intersection, `as uN` keeps the positions     *)
(* below N, `1 << k` is {k}, and no word ever has to fit a TLC integer.     *)
(***************************************************************************)
EXTENDS Integers, Sequences, FiniteSets, TLC

VARIABLES
    width,          \* 32: SerializingChallenger32, 64: SerializingChallenger64
    order,          \* F::ORDER_U64, a word
    dim,            \* EF::DIMENSION, the number of base-field coordinates of EF
    usizeBits,      \* usize::BITS of the build target
    overflowChecks, \* whether the build panics on arithmetic overflow (debug)
    step,           \* the inner transcript's advance per sampled byte
    inner,          \* self.inner, the live byte transcript
    pc,             \* "idle", "sample", "grind" or "panic"
    call,           \* the operation in progress, or the last one
    ret,            \* what the last operation returned
    coords,         \* sample(): the coordinates accepted so far
    rejected,       \* sample(): some draw of this call was rejected
    drawn,          \* the bytes of the last sample_array() on the live transcript
    fed,            \* the bytes the last operation passed to inner.observe
    tried,          \* grind(): the candidates find_any has evaluated
    found,          \* grind(): those of them that satisfied the predicate
    grindStart,     \* grind(): the transcript when grind was called
    sampleStart,    \* sample(): the transcript when sample was called
    digest,         \* observe(Hash<F, u8, N>): the digest words of the call
    stark,          \* StarkConfigImpl: the fields of the configuration
    given,          \* StarkConfigImpl::new(pcs, dft): the two arguments
    starkRet,       \* StarkConfig::pcs / dft: the last accessor's result
    count           \* the tally of the draws that sample_base turns into one value

vars == <<width, order, dim, usizeBits, overflowChecks, step, inner, pc,
          call, ret, coords, rejected, drawn, fed, tried, found, grindStart,
          sampleStart, digest, count,
          stark, given, starkRet>>

config == <<width, order, dim, usizeBits, overflowChecks, step>>

setup == <<config, count, stark, given, starkRet>>

(***************************************************************************)
(* Bounds of the model.                                                     *)
(***************************************************************************)
InnerMod == 5       \* number of states of the inner transcript
MaxCand == 3        \* the grinding search enumerates candidates 0 .. MaxCand-1
MaxDim == 2         \* largest extension degree
CountWidth == 5     \* word width of the exhaustive counting of draws
MaxInstances == 4   \* instances of each of the Pcs and Dft types
MaxCalls == 3       \* accessor calls made on one configuration

(***************************************************************************)
(* Program constants.                                                       *)
(***************************************************************************)
U32Bits == 32
U64Bits == 64
ByteBits == 8

(***************************************************************************)
(* Words.                                                                   *)
(***************************************************************************)
Pow2(n) == IF n = 0 THEN 1 ELSE 2 ^ n

\* The word of a natural number below 2^16.
FromInt(n) == {j \in 0..15 : (n \div Pow2(j)) % 2 = 1}

\* `x as uN`: narrowing keeps the low n bits, widening changes nothing.
AsBits(x, n) == {j \in x : j < n}

\* `a < b` on unsigned words: at the highest bit where they differ, b has the 1.
Lt(a, b) == \E i \in b \ a : \A j \in a \ b : j < i

Le(a, b) == a = b \/ Lt(a, b)

BitAnd(a, b) == a \cap b

MinBit(x) == CHOOSE m \in x : \A j \in x : m <= j

\* `x - 1` in a word of n bits (0 - 1 wraps to all ones when overflow checks
\* are off; the code only ever subtracts from a power of two).
Dec(x, n) == IF x = {} THEN 0..(n - 1) ELSE (x \ {MinBit(x)}) \cup (0..(MinBit(x) - 1))

\* `1 << k` in a word of n bits overflows when k >= n; with overflow checks off
\* the shift amount wraps modulo n.
ShlOverflows(k, n) == k >= n
Shl1(k, n) == {k % n}

\* Byte i (0-based) of a word.
ByteOf(x, i) ==
    LET bit(j) == IF (ByteBits * i + j) \in x THEN Pow2(j) ELSE 0
    IN bit(0) + bit(1) + bit(2) + bit(3) + bit(4) + bit(5) + bit(6) + bit(7)

\* uN::to_le_bytes: n bytes, least significant first.
to_le_bytes(x, n) == [i \in 1..n |-> ByteOf(x, i - 1)]

\* uN::from_le_bytes: byte i contributes bits 8i .. 8i+7.
from_le_bytes(bs) ==
    UNION {{ByteBits * (i - 1) + j : j \in {k \in 0..(ByteBits - 1) : (bs[i] \div Pow2(k)) % 2 = 1}}
           : i \in 1..Len(bs)}

\* The number of bits of x: u64::BITS - x.leading_zeros().
BitLen(x) == CHOOSE k \in 0..U64Bits : (x \subseteq 0..(k - 1)) /\ (k = 0 \/ (k - 1) \in x)

\* p3_util::log2_ceil_u64(n), the least k with n <= 2^k, computed as the bit
\* length of n - 1 (saturating at 0).
log2_ceil_u64(n) == IF n = {} THEN 0 ELSE BitLen(Dec(n, U64Bits))

(***************************************************************************)
(* The inner byte transcript (external): a deterministic state machine with *)
(* observe(byte) and sample() -> byte.                                      *)
(***************************************************************************)
Palette == <<2, 9, 0, 255, 15, 8, 127, 12>>

inner_observe(s, b) == (3 * s + b + 1) % InnerMod

inner_sample(s) ==
    [byte |-> Palette[(s % Len(Palette)) + 1], inner |-> (s + step) % InnerMod]

RECURSIVE observe_slice(_, _)
observe_slice(s, bs) ==
    IF bs = <<>> THEN s ELSE observe_slice(inner_observe(s, Head(bs)), Tail(bs))

\* CanSample::sample_array: n successive sample() calls.
RECURSIVE sample_array(_, _)
sample_array(s, n) ==
    IF n = 0 THEN [bytes |-> <<>>, inner |-> s]
    ELSE LET one == inner_sample(s)
             rest == sample_array(one.inner, n - 1)
         IN [bytes |-> <<one.byte>> \o rest.bytes, inner |-> rest.inner]

(***************************************************************************)
(* The adapter.                                                             *)
(***************************************************************************)
\* A draw of one byte, whatever the native width.
NativeBytes_one == ByteBits \div ByteBits

NativeBytes == width \div ByteBits

\* PrimeField32::to_unique_u32 / PrimeField64::to_unique_u64: a field element
\* is modelled by its canonical integer, held in a native word.
to_unique(value) == AsBits(value, width)

\* The same bytes most significant first, as to_be_bytes would give them.
observe_bytes_be(value) ==
    [i \in 1..NativeBytes |-> to_le_bytes(to_unique(value), NativeBytes)[NativeBytes + 1 - i]]

\* CanObserve<F>::observe: the bytes passed to the inner transcript.
observe_bytes(value) == to_le_bytes(to_unique(value), NativeBytes)

\* Each digest word encoded as a field element is by observe(value: F): its
\* native-width little-endian bytes.
RECURSIVE observe_hash_bytes_as_field(_)
observe_hash_bytes_as_field(values) ==
    IF values = <<>> THEN <<>>
    ELSE observe_bytes(FromInt(Head(values))) \o observe_hash_bytes_as_field(Tail(values))

\* CanObserve<Hash<F, u8, N>>::observe: the bytes passed to the inner
\* transcript, one self.inner.observe(value) per u8 digest word, in order.
observe_hash_bytes(values) == [k \in 1..Len(values) |-> values[k]]

\* sample(): modulus, log_size and pow_of_two_bound; the power of two is
\* computed in a word twice as wide as the native one.
modulus == AsBits(order, width)
log_size == log2_ceil_u64(order)

\* The bound computed in the native word instead: 1 << log_size wraps when
\* log_size is the native width.
pow_of_two_bound_narrow == AsBits(Dec(Shl1(log_size, width), width), width)

pow_of_two_bound == AsBits(Dec(Shl1(log_size, 2 * width), 2 * width), width)

\* One iteration of sample_base's loop: the masked draw, and the test that
\* accepts it.
mask_word(word) == BitAnd(word, pow_of_two_bound)
masked_value(bytes) == mask_word(from_le_bytes(bytes))

accepts_le(value) == Le(value, modulus)

accepts(value) == Lt(value, modulus)

\* sample_bits: the two assertions on bits, and the mask of the low bits.
bits_fit_usize(bits) == bits < usizeBits

bits_fit_field_unchecked(bits) == TRUE

bits_fit_field(bits) == Le(Shl1(bits, usizeBits), AsBits(order, usizeBits))

bits_mask_no_dec(bits) == Shl1(bits, usizeBits)

bits_mask(bits) == Dec(Shl1(bits, usizeBits), usizeBits)

\* sample_bits(bits) on transcript s.
sample_bits_on(s, bits) ==
    IF ~bits_fit_usize(bits)
    THEN [panic |-> TRUE, msg |-> "assertion failed: bits < usize::BITS",
          value |-> {}, inner |-> s, drawn |-> <<>>]
    ELSE IF ~bits_fit_field(bits)
    THEN [panic |-> TRUE, msg |-> "assertion failed: (1 << bits) <= F::ORDER_U64 as usize",
          value |-> {}, inner |-> s, drawn |-> <<>>]
    ELSE LET d == sample_array(s, NativeBytes)
             rand_usize == AsBits(from_le_bytes(d.bytes), usizeBits)
         IN [panic |-> FALSE, msg |-> "",
             value |-> BitAnd(rand_usize, bits_mask(bits)),
             inner |-> d.inner, drawn |-> d.bytes]

\* GrindingChallenger::check_witness(bits, witness) on transcript s:
\* observe the witness, then sample_bits(bits) == 0.
check_witness(s, bits, witness) ==
    LET r == sample_bits_on(observe_slice(s, observe_bytes(witness)), bits)
    IN [panic |-> r.panic, msg |-> r.msg, result |-> (~r.panic /\ r.value = {}),
        inner |-> r.inner, drawn |-> r.drawn]

\* grind: the assertion (1 << bits) < F::ORDER, the shift done in the native
\* word of the order.
grind_order_le(bits) == Le(Shl1(bits, width), AsBits(order, width))

grind_order_ok(bits) == Lt(Shl1(bits, width), AsBits(order, width))

\* F::from_canonical_unchecked(i) for a candidate i of the search.
from_canonical_unchecked(i) == FromInt(i)

\* The candidates (0..F::ORDER) the search enumerates, and whether they are
\* all of the field.
Candidates == {i \in 0..(MaxCand - 1) : Lt(FromInt(i), order)}
FullyEnumerated == Le(order, FromInt(MaxCand))

(***************************************************************************)
(* Inputs.                                                                  *)
(***************************************************************************)
Mersenne31 == 0..30
MaxPrime32 == (0..31) \ {2}         \* 2^32 - 5
Goldilocks == {0} \cup (32..63)     \* 2^64 - 2^32 + 1

Orders32 == {FromInt(2), FromInt(3), FromInt(5), FromInt(13), Mersenne31, MaxPrime32}
Orders64 == {FromInt(3), FromInt(13), Goldilocks}

BitsInputs == {0, 1, 2, 3, 4, 31, 32, 63, 64}

\* Field elements a caller may observe: 0, 1, 258 and order - 1.
Elements == {v \in {{}, {0}, {1, 8}, Dec(order, U64Bits)} : Lt(v, order)}

\* Digests Hash<F, u8, N> a caller may observe, N = 1 and N = 2.
Digests == {<<1>>, <<0, 255>>, <<9, 1>>}

\* StarkConfigImpl::new(pcs, dft): the two instances moved into the struct and
\* four zero-sized markers.
new(pcs_arg, dft_arg) ==
    [pcs |-> pcs_arg, dft |-> dft_arg,
     _phantom_val |-> "PhantomData", _phantom_domain |-> "PhantomData",
     _phantom_challenge |-> "PhantomData", _phantom_chal |-> "PhantomData"]

NoStarkRet == [op |-> "new", ref |-> 0, calls |-> 0]

NoCall == [op |-> "none", bits |-> 0, arg |-> {}]
NoCount == [p |-> 0, v |-> 0 - 1, n |-> 0]
NoRet == [status |-> "none", value |-> <<>>, msg |-> ""]

Init ==
    /\ width \in {U32Bits, U64Bits}
    /\ order \in IF width = U32Bits THEN Orders32 ELSE Orders64
    /\ dim \in 1..MaxDim
    /\ usizeBits \in {U32Bits, U64Bits}
    /\ overflowChecks \in BOOLEAN
    /\ step \in {0, 1}
    /\ inner = 0
    /\ pc = "idle"
    /\ call = NoCall
    /\ ret = NoRet
    /\ coords = <<>>
    /\ rejected = FALSE
    /\ drawn = <<>>
    /\ fed = <<>>
    /\ tried = {}
    /\ found = {}
    /\ grindStart = 0
    /\ sampleStart = 0
    /\ digest = <<>>
    /\ stark = new(1, 1)
    /\ given = <<1, 1>>
    /\ starkRet = NoStarkRet
    /\ count = NoCount

(***************************************************************************)
(* Operations.                                                              *)
(***************************************************************************)
\* A failed assert! or expect: the call panics.
Panic(msg) ==
    /\ pc' = "panic"
    /\ ret' = [status |-> "panic", value |-> <<>>, msg |-> msg]

\* CanObserve<F>::observe(value)
observe(value) ==
    /\ pc = "idle"
    /\ inner' = observe_slice(inner, observe_bytes(value))
    /\ fed' = observe_bytes(value)
    /\ call' = [op |-> "observe", bits |-> 0, arg |-> value]
    /\ ret' = [status |-> "ok", value |-> <<>>, msg |-> ""]
    /\ drawn' = <<>>
    /\ coords' = <<>>
    /\ rejected' = FALSE
    /\ tried' = {}
    /\ found' = {}
    /\ grindStart' = 0
    /\ sampleStart' = 0
    /\ digest' = <<>>
    /\ UNCHANGED <<setup, pc>>

\* CanObserve<Hash<F, u8, N>>::observe(values)
observe_hash_u8(values) ==
    /\ pc = "idle"
    /\ inner' = observe_slice(inner, observe_hash_bytes(values))
    /\ fed' = observe_hash_bytes(values)
    /\ digest' = values
    /\ call' = [op |-> "observe_hash_u8", bits |-> 0, arg |-> {}]
    /\ ret' = [status |-> "ok", value |-> <<>>, msg |-> ""]
    /\ drawn' = <<>>
    /\ coords' = <<>>
    /\ rejected' = FALSE
    /\ tried' = {}
    /\ found' = {}
    /\ grindStart' = 0
    /\ sampleStart' = 0
    /\ UNCHANGED <<setup, pc>>

\* CanSample<EF>::sample(), entry
sample_begin ==
    /\ pc = "idle"
    /\ pc' = "sample"
    /\ call' = [op |-> "sample", bits |-> 0, arg |-> {}]
    /\ ret' = NoRet
    /\ coords' = <<>>
    /\ rejected' = FALSE
    /\ drawn' = <<>>
    /\ fed' = <<>>
    /\ tried' = {}
    /\ found' = {}
    /\ grindStart' = 0
    /\ sampleStart' = inner
    /\ digest' = <<>>
    /\ UNCHANGED <<setup, inner>>

\* A loop that treats a rejected draw as a failure instead of drawing again.
sample_draw_reject_fails ==
    /\ pc = "sample"
    /\ LET d == sample_array(inner, NativeBytes)
           value == masked_value(d.bytes)
       IN /\ inner' = d.inner
          /\ drawn' = d.bytes
          /\ IF accepts(value)
             THEN /\ coords' = Append(coords, value)
                  /\ rejected' = rejected
                  /\ IF Len(coords) + 1 = dim
                     THEN /\ pc' = "idle"
                          /\ ret' = [status |-> "ok", value |-> Append(coords, value), msg |-> ""]
                     ELSE UNCHANGED <<pc, ret>>
             ELSE /\ rejected' = TRUE
                  /\ Panic("draw rejected")
                  /\ UNCHANGED coords
    /\ UNCHANGED <<setup, call, fed, tried, found, grindStart, sampleStart, digest>>

\* One iteration of sample_base's loop: draw, mask, accept or redraw.  The
\* call returns once EF::DIMENSION coordinates are accepted.
sample_draw ==
    /\ pc = "sample"
    /\ LET d == sample_array(inner, NativeBytes)
           value == masked_value(d.bytes)
       IN /\ inner' = d.inner
          /\ drawn' = d.bytes
          /\ IF accepts(value)
             THEN /\ coords' = Append(coords, value)
                  /\ rejected' = rejected
                  /\ IF Len(coords) + 1 = dim
                     THEN /\ pc' = "idle"
                          /\ ret' = [status |-> "ok", value |-> Append(coords, value), msg |-> ""]
                     ELSE UNCHANGED <<pc, ret>>
             ELSE /\ rejected' = TRUE
                  /\ UNCHANGED <<coords, pc, ret>>
    /\ UNCHANGED <<setup, call, fed, tried, found, grindStart, sampleStart, digest>>

\* CanSampleBits<usize>::sample_bits(bits)
sample_bits(bits) ==
    /\ pc = "idle"
    /\ LET r == sample_bits_on(inner, bits)
       IN /\ inner' = r.inner
          /\ drawn' = r.drawn
          /\ pc' = IF r.panic THEN "panic" ELSE "idle"
          /\ ret' = IF r.panic
                    THEN [status |-> "panic", value |-> <<>>, msg |-> r.msg]
                    ELSE [status |-> "ok", value |-> <<r.value>>, msg |-> ""]
    /\ call' = [op |-> "sample_bits", bits |-> bits, arg |-> {}]
    /\ coords' = <<>>
    /\ rejected' = FALSE
    /\ fed' = <<>>
    /\ tried' = {}
    /\ found' = {}
    /\ grindStart' = 0
    /\ sampleStart' = 0
    /\ digest' = <<>>
    /\ UNCHANGED setup

\* GrindingChallenger::grind(bits), entry: the two assertions.
grind_begin(bits) ==
    /\ pc = "idle"
    /\ call' = [op |-> "grind", bits |-> bits, arg |-> {}]
    /\ IF ~bits_fit_usize(bits)
       THEN Panic("assertion failed: bits < usize::BITS")
       ELSE IF ShlOverflows(bits, width) /\ overflowChecks
       THEN Panic("attempt to shift left with overflow")
       ELSE IF ~grind_order_ok(bits)
       THEN Panic("assertion failed: (1 << bits) < F::ORDER")
       ELSE /\ pc' = "grind"
            /\ ret' = NoRet
    /\ grindStart' = inner
    /\ sampleStart' = 0
    /\ digest' = <<>>
    /\ tried' = {}
    /\ found' = {}
    /\ coords' = <<>>
    /\ rejected' = FALSE
    /\ drawn' = <<>>
    /\ fed' = <<>>
    /\ UNCHANGED <<setup, inner>>

\* A unit that evaluates candidate i on self instead of on a clone of it.
grind_eval_no_clone(i) ==
    /\ pc = "grind"
    /\ i \notin tried
    /\ LET r == check_witness(inner, call.bits, from_canonical_unchecked(i))
       IN /\ inner' = r.inner
          /\ IF r.panic
             THEN Panic(r.msg) /\ UNCHANGED <<tried, found>>
             ELSE /\ tried' = tried \cup {i}
                  /\ found' = IF r.result THEN found \cup {i} ELSE found
                  /\ UNCHANGED <<pc, ret>>
    /\ UNCHANGED <<setup, call, coords, rejected, drawn, fed, grindStart, sampleStart, digest>>

\* One unit of the parallel search evaluates candidate i on a clone of self.
grind_eval(i) ==
    /\ pc = "grind"
    /\ i \notin tried
    /\ LET r == check_witness(inner, call.bits, from_canonical_unchecked(i))
       IN IF r.panic
          THEN Panic(r.msg) /\ UNCHANGED <<tried, found>>
          ELSE /\ tried' = tried \cup {i}
               /\ found' = IF r.result THEN found \cup {i} ELSE found
               /\ UNCHANGED <<pc, ret>>
    /\ UNCHANGED <<setup, inner, call, coords, rejected, drawn, fed, grindStart, sampleStart, digest>>

\* A return whose final check runs on a clone of self, like the search.
grind_return_on_clone(i) ==
    /\ pc = "grind"
    /\ i \in found
    /\ LET witness == from_canonical_unchecked(i)
           r == check_witness(inner, call.bits, witness)
       IN /\ drawn' = r.drawn
          /\ fed' = observe_bytes(witness)
          /\ IF r.panic THEN Panic(r.msg)
             ELSE IF ~r.result THEN Panic("assertion failed: self.check_witness(bits, witness)")
             ELSE /\ pc' = "idle"
                  /\ ret' = [status |-> "ok", value |-> <<witness>>, msg |-> ""]
    /\ tried' = {}
    /\ found' = {}
    /\ UNCHANGED <<setup, inner, call, coords, rejected, grindStart, sampleStart, digest>>

\* find_any returns a candidate i that satisfied the predicate; it is checked
\* again on self, and returned.
grind_return(i) ==
    /\ pc = "grind"
    /\ i \in found
    /\ LET witness == from_canonical_unchecked(i)
           r == check_witness(inner, call.bits, witness)
       IN /\ inner' = r.inner
          /\ drawn' = r.drawn
          /\ fed' = observe_bytes(witness)
          /\ IF r.panic THEN Panic(r.msg)
             ELSE IF ~r.result THEN Panic("assertion failed: self.check_witness(bits, witness)")
             ELSE /\ pc' = "idle"
                  /\ ret' = [status |-> "ok", value |-> <<witness>>, msg |-> ""]
    /\ tried' = {}
    /\ found' = {}
    /\ UNCHANGED <<setup, call, coords, rejected, grindStart, sampleStart, digest>>

\* An exhausted search that falls back to the zero element (unwrap_or_default)
\* and returns it.
grind_exhausted_sentinel ==
    /\ pc = "grind"
    /\ FullyEnumerated
    /\ tried = Candidates
    /\ found = {}
    /\ pc' = "idle"
    /\ ret' = [status |-> "ok", value |-> <<{}>>, msg |-> ""]
    /\ UNCHANGED <<setup, inner, call, coords, rejected, drawn, fed, tried, found, grindStart, sampleStart, digest>>

\* find_any returns None: every candidate was evaluated and none matched.
grind_exhausted ==
    /\ pc = "grind"
    /\ FullyEnumerated
    /\ tried = Candidates
    /\ found = {}
    /\ Panic("failed to find witness")
    /\ UNCHANGED <<setup, inner, call, coords, rejected, drawn, fed, tried, found, grindStart, sampleStart, digest>>

Next ==
    \/ pc = "idle" /\ \E value \in Elements : observe(value)
    \/ pc = "idle" /\ \E values \in Digests : observe_hash_u8(values)
    \/ sample_begin
    \/ sample_draw
    \/ \E bits \in BitsInputs : sample_bits(bits)
    \/ \E bits \in BitsInputs : grind_begin(bits)
    \/ pc = "grind" /\ \E i \in Candidates : grind_eval(i)
    \/ pc = "grind" /\ \E i \in found : grind_return(i)
    \/ grind_exhausted

Spec == Init /\ [][Next]_vars

(***************************************************************************)
(* Exhaustive tally of sample_base's loop body: for a field of order p over *)
(* words of CountWidth bits, how many of the 2^CountWidth draws the loop     *)
(* body turns into the value v.                                              *)
(***************************************************************************)
CountInit ==
    /\ width = CountWidth
    /\ \E p \in 2..(Pow2(CountWidth) - 1) :
          /\ order = FromInt(p)
          /\ count = [p |-> p, v |-> 0 - 1, n |-> 0]
    /\ dim = 1
    /\ usizeBits = U64Bits
    /\ overflowChecks = FALSE
    /\ step = 0
    /\ inner = 0
    /\ pc = "idle"
    /\ call = NoCall
    /\ ret = NoRet
    /\ coords = <<>>
    /\ rejected = FALSE
    /\ drawn = <<>>
    /\ fed = <<>>
    /\ tried = {}
    /\ found = {}
    /\ grindStart = 0
    /\ sampleStart = 0
    /\ digest = <<>>
    /\ stark = new(1, 1)
    /\ given = <<1, 1>>
    /\ starkRet = NoStarkRet

\* The draws d for which `value & pow_of_two_bound` is accepted and is v.
count_value(v) ==
    /\ count.v < 0
    /\ count' = [count EXCEPT
                   !.v = v,
                   !.n = Cardinality({d \in 0..(Pow2(width) - 1) :
                                        /\ accepts(mask_word(FromInt(d)))
                                        /\ mask_word(FromInt(d)) = FromInt(v)})]
    /\ UNCHANGED <<config, inner, pc, call, ret, coords, rejected, drawn, fed, tried,
                   found, grindStart, sampleStart, digest, stark, given, starkRet>>

CountNext == \E v \in 0..(Pow2(CountWidth) - 1) : count_value(v)

SpecCount == CountInit /\ [][CountNext]_vars

(***************************************************************************)
(* StarkConfigImpl: a configuration built by new(pcs, dft) and read through *)
(* its two accessors.  Instances are modelled by their identities.          *)
(***************************************************************************)
StarkInit ==
    /\ \E pcs_arg \in 1..MaxInstances, dft_arg \in 1..MaxInstances :
          /\ stark = new(pcs_arg, dft_arg)
          /\ given = <<pcs_arg, dft_arg>>
    /\ starkRet = NoStarkRet
    /\ width = U32Bits
    /\ order = Mersenne31
    /\ dim = 1
    /\ usizeBits = U64Bits
    /\ overflowChecks = FALSE
    /\ step = 0
    /\ count = NoCount
    /\ inner = 0
    /\ pc = "idle"
    /\ call = NoCall
    /\ ret = NoRet
    /\ coords = <<>>
    /\ rejected = FALSE
    /\ drawn = <<>>
    /\ fed = <<>>
    /\ tried = {}
    /\ found = {}
    /\ grindStart = 0
    /\ sampleStart = 0
    /\ digest = <<>>

\* An accessor that hands out the other field.
pcs_returns_dft ==
    /\ starkRet.calls < MaxCalls
    /\ starkRet' = [op |-> "pcs", ref |-> stark.dft, calls |-> starkRet.calls + 1]
    /\ UNCHANGED <<config, count, stark, given, inner, pc, call, ret, coords, rejected,
                   drawn, fed, tried, found, grindStart, sampleStart, digest>>

\* StarkConfig::pcs(&self) -> &Pcs
pcs ==
    /\ starkRet.calls < MaxCalls
    /\ starkRet' = [op |-> "pcs", ref |-> stark.pcs, calls |-> starkRet.calls + 1]
    /\ UNCHANGED <<config, count, stark, given, inner, pc, call, ret, coords, rejected,
                   drawn, fed, tried, found, grindStart, sampleStart, digest>>

\* StarkConfig::dft(&self) -> &Dft
dft ==
    /\ starkRet.calls < MaxCalls
    /\ starkRet' = [op |-> "dft", ref |-> stark.dft, calls |-> starkRet.calls + 1]
    /\ UNCHANGED <<config, count, stark, given, inner, pc, call, ret, coords, rejected,
                   drawn, fed, tried, found, grindStart, sampleStart, digest>>

StarkNext == pcs \/ dft

SpecStark == StarkInit /\ [][StarkNext]_vars

(***************************************************************************)
(* Properties.                                                              *)
(***************************************************************************)
\* The proof-of-work predicate on transcript s: observe w, then sample_bits(bits)
\* returns 0.
Satisfies(s, bits, w) ==
    LET r == sample_bits_on(observe_slice(s, observe_bytes(w)), bits)
    IN ~r.panic /\ r.value = {}

\* Bit j of a little-endian byte sequence.
BitOfBytes(bs, j) == (bs[(j \div ByteBits) + 1] \div Pow2(j % ByteBits)) % 2 = 1

\* C1: every base-field coordinate that sample() accepts, and every coordinate
\* of the element it returns, is a native word strictly below the field order.
C1_SampleBelowOrder ==
    call.op = "sample" =>
        /\ \A k \in 1..Len(coords) :
              coords[k] \subseteq 0..(width - 1) /\ Lt(coords[k], order)
        /\ ret.status = "ok" =>
              /\ Len(ret.value) = dim
              /\ \A k \in 1..dim : Lt(ret.value[k], order)

C1_Witness ==
    call.op = "sample" /\ ret.status = "ok" /\ rejected /\ dim > 1 /\ ret.value[dim] # {}

\* C2: a witness returned by grind(bits) satisfies the proof-of-work predicate
\* on the transcript that was current when grind was called.
C2_GrindWitnessValid ==
    (call.op = "grind" /\ ret.status = "ok") =>
        Satisfies(grindStart, call.bits, ret.value[1])

C2_Witness ==
    /\ call.op = "grind" /\ ret.status = "ok"
    /\ call.bits > 0 /\ ret.value[1] # {} /\ grindStart # 0

\* C4 as stated: when grind returns, the live transcript equals the transcript
\* at the call.
C4_LiveUnchangedAtReturn ==
    (call.op = "grind" /\ ret.status = "ok") => inner = grindStart

\* C4 amended: the search leaves the live transcript as it was at the call, and
\* when grind returns w the live transcript is the one at the call advanced by
\* one observation of w and one native-width draw.
C4_SearchReadOnlyReturnAdvanced ==
    call.op = "grind" =>
        /\ pc = "grind" => inner = grindStart
        /\ ret.status = "ok" =>
              /\ Len(fed) = NativeBytes
              /\ from_le_bytes(fed) = ret.value[1]
              /\ inner = sample_array(observe_slice(grindStart, fed), NativeBytes).inner

C4_Witness ==
    call.op = "grind" /\ ret.status = "ok" /\ inner # grindStart /\ tried = {}

C6_SampleBitsRejectsBadBits ==
    (call.op = "sample_bits" /\ (call.bits >= width \/ Lt(order, {call.bits}))) =>
        pc = "panic" /\ ret.status = "panic" /\ ret.value = <<>> /\ drawn = <<>>

C6_Witness ==
    /\ call.op = "sample_bits" /\ pc = "panic"
    /\ call.bits < width /\ call.bits < usizeBits /\ Lt(order, {call.bits})

\* C7: grind(bits) with bits >= the native width or 2^bits >= order never
\* returns: it has panicked, or no candidate evaluation can complete.
C7_GrindRejectsBadBits ==
    (call.op = "grind" /\ (call.bits >= width \/ Le(order, {call.bits}))) =>
        /\ ret.status # "ok" /\ tried = {} /\ found = {}
        /\ pc \in {"panic", "grind"}
        /\ pc = "grind" =>
              \A i \in Candidates :
                 check_witness(inner, call.bits, from_canonical_unchecked(i)).panic

C7_Witness ==
    /\ call.op = "grind" /\ pc = "panic" /\ ~overflowChecks
    /\ call.bits >= width /\ call.bits < usizeBits
    /\ ret.msg = "assertion failed: (1 << bits) <= F::ORDER_U64 as usize"

\* C8: when no candidate of the whole field satisfies the predicate on the
\* transcript at the call, grind returns nothing; it ends in the panic
\* "failed to find witness".
C8_ExhaustedSearchAborts ==
    (/\ call.op = "grind" /\ FullyEnumerated
     /\ call.bits < width /\ Lt({call.bits}, order)
     /\ \A i \in Candidates : ~Satisfies(grindStart, call.bits, from_canonical_unchecked(i)))
    => /\ ret.status # "ok" /\ ret.value = <<>>
       /\ pc \in {"grind", "panic"}
       /\ pc = "panic" => ret.msg = "failed to find witness"

C8_Witness ==
    call.op = "grind" /\ pc = "panic" /\ ret.msg = "failed to find witness"

\* C9: observe(value) passes to the inner transcript exactly the native-width
\* little-endian bytes of the canonical integer of value (4 or 8 of them), and
\* the inner transcript changes by observing those bytes in order.
C9_ObserveAppendsLeBytes ==
    [][call'.op = "observe" =>
          /\ Len(fed') = width \div ByteBits
          /\ \A i \in 1..Len(fed') : fed'[i] \in 0..255
          /\ \A j \in 0..(width - 1) : (j \in call'.arg) <=> BitOfBytes(fed', j)
          /\ Lt(call'.arg, order)
          /\ inner' = observe_slice(inner, fed')]_vars

C9_Witness ==
    call.op = "observe" /\ call.arg = {1, 8} /\ fed[1] = 2 /\ fed[2] = 1 /\ inner # 0

\* C10: over words of W bits, each value v below the order p is what the loop
\* body makes of exactly 2^(W - ceil(log2 p)) draws, and no draw is turned into
\* a value v >= p.
CeilLog2(p) == CHOOSE k \in 0..CountWidth : p <= Pow2(k) /\ \A m \in 0..(k - 1) : p > Pow2(m)

C10_NoModuloBias ==
    count.v >= 0 =>
        count.n = IF count.v < count.p THEN Pow2(CountWidth - CeilLog2(count.p)) ELSE 0

C10_Witness == count.p = 5 /\ count.v = 4 /\ count.n > 1

\* The scenario of C11: the 32-bit adapter over a field of order 13, sample()
\* called on a transcript whose next bytes are 15, 2, 9.
Order13Scenario ==
    /\ call.op = "sample" /\ width = U32Bits /\ order = FromInt(13)
    /\ sample_array(sampleStart, 3).bytes = <<15, 2, 9>>

\* C11 as stated: in that scenario sample() returns 9.
C11_RejectsFifteenReturnsNine ==
    (Order13Scenario /\ ret.status = "ok") => ret.value[1] = FromInt(9)

\* C11 amended: in that scenario the first draw takes the four bytes 15, 2, 9
\* and the one after them, its masked value 15 is rejected, and the coordinate
\* returned is the low four bits, below 13, of the first byte of a later
\* four-byte draw.
C11_FirstDrawOfFourBytesRejected ==
    (Order13Scenario /\ drawn # <<>>) =>
        /\ Len(drawn) = 4
        /\ rejected
        /\ masked_value(sample_array(sampleStart, 4).bytes) = FromInt(15)
        /\ ret.status = "ok" =>
              /\ inner # sample_array(sampleStart, 4).inner
              /\ \A k \in 1..dim :
                    ret.value[k] \subseteq 0..3 /\ Lt(ret.value[k], FromInt(13))
              /\ ret.value[dim] = FromInt(drawn[1] % 16)

C11_Witness ==
    Order13Scenario /\ ret.status = "ok" /\ rejected /\ ret.value[1] # FromInt(9)

\* C12: grind(0) never aborts, whatever the transcript and the order: the two
\* assertions pass, every candidate satisfies the predicate, the search finds
\* each candidate it evaluates, and the call returns a witness.
C12_GrindZeroBitsSucceeds ==
    (call.op = "grind" /\ call.bits = 0) =>
        /\ pc # "panic"
        /\ found = tried
        /\ pc = "grind" =>
              \A i \in Candidates : Satisfies(inner, 0, from_canonical_unchecked(i))
        /\ pc = "idle" => ret.status = "ok" /\ Len(ret.value) = 1

C12_Witness ==
    /\ call.op = "grind" /\ call.bits = 0 /\ ret.status = "ok"
    /\ order = Goldilocks /\ usizeBits = U32Bits /\ ret.value[1] # {}

\* C13: a candidate evaluation of the search runs check_witness on a clone: it
\* leaves the live transcript exactly as it was, and the boolean recorded for
\* every candidate evaluated so far is the one a fresh clone of the live
\* transcript gives again.
C13_CloneEvaluationLeavesOriginal ==
    [][(pc = "grind" /\ pc' = "grind" /\ tried' # tried) =>
          /\ inner' = inner
          /\ \A i \in tried' :
                (i \in found') <=>
                    check_witness(inner', call.bits, from_canonical_unchecked(i)).result]_vars

C13_Witness ==
    /\ pc = "grind" /\ call.bits > 0 /\ Cardinality(tried) > 1
    /\ found # {} /\ found # tried /\ inner # 0

\* The transcript after observe(value: F) on each word of a digest in order.
RECURSIVE FieldObserveEach(_, _)
FieldObserveEach(s, values) ==
    IF values = <<>> THEN s
    ELSE FieldObserveEach(observe_slice(s, observe_bytes(FromInt(Head(values)))),
                          Tail(values))

\* C14 as stated: observing a byte-granularity hash changes the inner
\* transcript as observe(value: F) on each of its N elements in order would.
C14_HashObservedViaFieldObserve ==
    [][(/\ call'.op = "observe_hash_u8"
        /\ \A k \in 1..Len(digest') : Lt(FromInt(digest'[k]), order))
       => inner' = FieldObserveEach(inner, digest')]_vars

\* C14 amended: observing a byte-granularity hash of N words passes exactly
\* those N bytes, one inner observe per word, in order, with no native-width
\* encoding; the inner transcript changes by observing those N bytes.
C14_HashBytesObservedDirectly ==
    [][call'.op = "observe_hash_u8" =>
          /\ Len(fed') = Len(digest')
          /\ \A k \in 1..Len(digest') : fed'[k] = digest'[k]
          /\ inner' = observe_slice(inner, digest')
          /\ Len(fed') < Len(observe_hash_bytes_as_field(digest'))]_vars

C14_Witness ==
    /\ call.op = "observe_hash_u8" /\ Len(digest) = 2 /\ fed = <<9, 1>>
    /\ inner # FieldObserveEach(0, digest)

\* C15: whatever accessor calls were made, the configuration holds the two
\* instances given to new and nothing else but zero-sized markers, pcs()
\* refers to the commitment-scheme instance given and dft() to the
\* transform-engine instance given.
C15_ConfigImmutable ==
    /\ stark.pcs = given[1]
    /\ stark.dft = given[2]
    /\ \A f \in DOMAIN stark \ {"pcs", "dft"} : stark[f] = "PhantomData"
    /\ starkRet.op = "pcs" => starkRet.ref = given[1]
    /\ starkRet.op = "dft" => starkRet.ref = given[2]

C15_Witness ==
    /\ starkRet.calls = MaxCalls /\ starkRet.op = "pcs"
    /\ given[1] # given[2] /\ starkRet.ref = given[1]

\* C16: in whatever order the units evaluate their candidates and whichever
\* match is returned, (a) during the search the live transcript is the one at
\* the call and the outcome of every unit is the predicate on that transcript,
\* unaffected by the other units, and (b) the candidate returned is a
\* candidate of the range that satisfies the predicate on that transcript.
C16_UnitsIsolatedAnyMatchValid ==
    call.op = "grind" =>
        /\ pc = "grind" =>
              /\ inner = grindStart
              /\ tried \subseteq Candidates
              /\ found = {i \in tried :
                             Satisfies(grindStart, call.bits, from_canonical_unchecked(i))}
        /\ ret.status = "ok" =>
              \E i \in Candidates :
                  /\ ret.value[1] = from_canonical_unchecked(i)
                  /\ Satisfies(grindStart, call.bits, from_canonical_unchecked(i))

C16_Witness ==
    /\ call.op = "grind" /\ ret.status = "ok" /\ call.bits > 0
    /\ ret.value[1] # {}
    /\ Satisfies(grindStart, call.bits, {})

\* ceil(log2(order)): the least k with order <= 2^k.
OrderCeilLog2 ==
    CHOOSE k \in 0..U64Bits :
        Le(order, {k}) /\ \A m \in 0..(k - 1) : ~Le(order, {m})

\* C17: the mask of sample() is 2^ceil(log2(order)) - 1, the word whose low
\* ceil(log2(order)) bits are set; when ceil(log2(order)) is the native width
\* it is the all-ones native word, and the masked draw then is the draw.
C17_MaskIsPowerOfTwoMinusOne ==
    /\ pow_of_two_bound = 0..(OrderCeilLog2 - 1)
    /\ OrderCeilLog2 = width => pow_of_two_bound = 0..(width - 1)
    /\ (call.op = "sample" /\ drawn # <<>>) =>
          /\ masked_value(drawn) = from_le_bytes(drawn) \cap 0..(OrderCeilLog2 - 1)
          /\ OrderCeilLog2 = width => masked_value(drawn) = from_le_bytes(drawn)

C17_Witness ==
    /\ call.op = "sample" /\ ret.status = "ok"
    /\ OrderCeilLog2 = width /\ (width - 1) \in ret.value[1]

\* The first of the next n draws from transcript s whose masked value is below
\* the order, the number of draws up to it, and the transcript after it.
RECURSIVE FirstDraw(_, _)
FirstDraw(s, n) ==
    IF n = 0 THEN [some |-> FALSE, value |-> {}, draws |-> 0, inner |-> s]
    ELSE LET d == sample_array(s, NativeBytes)
             v == from_le_bytes(d.bytes) \cap pow_of_two_bound
         IN IF Lt(v, order)
            THEN [some |-> TRUE, value |-> v, draws |-> 1, inner |-> d.inner]
            ELSE LET f == FirstDraw(d.inner, n - 1)
                 IN [f EXCEPT !.draws = f.draws + 1]

\* The same for k coordinates in a row.  The transcript has InnerMod states,
\* so a draw below the order that ever comes is among the next InnerMod draws.
RECURSIVE FirstDraws(_, _)
FirstDraws(s, k) ==
    IF k = 0 THEN [some |-> TRUE, values |-> <<>>, draws |-> 0, inner |-> s]
    ELSE LET f == FirstDraw(s, InnerMod)
         IN IF ~f.some THEN [some |-> FALSE, values |-> <<>>, draws |-> 0, inner |-> s]
            ELSE LET r == FirstDraws(f.inner, k - 1)
                 IN [some |-> r.some, values |-> <<f.value>> \o r.values,
                     draws |-> f.draws + r.draws, inner |-> r.inner]

\* C18: each coordinate returned by sample() is the first draw, in draw order,
\* whose masked value is below the order, and the transcript has moved past
\* exactly the rejected draws and the accepted ones; a sample() call never
\* ends in an error; while the transcript yields no draw below the order the
\* call does not return; and when it yields one for each remaining coordinate,
\* every iteration leaves one draw fewer to make and the call returns with the
\* last of them.
C18_FirstAcceptedDrawReturned ==
    [][/\ call'.op = "sample" =>
            /\ pc' # "panic" /\ ret'.status # "panic"
            /\ ret'.status = "ok" =>
                  LET f == FirstDraws(sampleStart', dim)
                  IN f.some /\ ret'.value = f.values /\ inner' = f.inner
       /\ pc = "sample" =>
            LET left == FirstDraws(inner, dim - Len(coords))
                next == FirstDraws(inner', dim - Len(coords'))
            IN IF left.some
               THEN /\ next.some
                    /\ next.draws = left.draws - 1
                    /\ (pc' = "idle") <=> (left.draws = 1)
               ELSE pc' = "sample" /\ ~next.some /\ coords' = coords]_vars

C18_Witness ==
    /\ call.op = "sample" /\ ret.status = "ok" /\ rejected /\ dim = 1
    /\ order = FromInt(13) /\ inner # sample_array(sampleStart, NativeBytes).inner

\* C19: when grind(bits) returns w, a verifier whose transcript is the one the
\* prover had at the call and who runs check_witness(bits, w) on it accepts w
\* and is left with exactly the prover's live transcript, which is the
\* transcript at the call after observing w once and one sample_bits(bits);
\* the two then draw the same coordinates.
C19_VerifierReachesSameTranscript ==
    (call.op = "grind" /\ ret.status = "ok") =>
        LET w == ret.value[1]
            verifier == check_witness(grindStart, call.bits, w)
        IN /\ ~verifier.panic /\ verifier.result
           /\ verifier.inner = inner
           /\ inner = sample_bits_on(observe_slice(grindStart, observe_bytes(w)),
                                     call.bits).inner
           /\ FirstDraws(verifier.inner, dim) = FirstDraws(inner, dim)

C19_Witness ==
    /\ call.op = "grind" /\ ret.status = "ok" /\ call.bits > 0
    /\ inner # grindStart /\ step > 0 /\ FirstDraws(inner, dim).some

\* grind's own checks on bits pass: bits < usize::BITS, and (1 << bits) < ORDER
\* as the build evaluates it.
GrindAccepts(bits) ==
    /\ bits_fit_usize(bits)
    /\ ~(ShlOverflows(bits, width) /\ overflowChecks)
    /\ grind_order_ok(bits)

\* C20: a value of bits that passes grind's two assertions passes the two
\* assertions of sample_bits, and a grind call that passed its own checks
\* aborts only with "failed to find witness".
C20_GrindBitsFitSampleBits ==
    (call.op = "grind" /\ GrindAccepts(call.bits)) =>
        /\ bits_fit_usize(call.bits)
        /\ bits_fit_field(call.bits)
        /\ pc = "panic" => ret.msg = "failed to find witness"
====
